---- MODULE Spec2Model ----
(***************************************************************************)
(* KeyValueDB (src/index.ts): a cached, per-user namespaced accessor over  *)
(* AsyncStorage, with a metadata record and a migration runner.            *)
(*                                                                         *)
(* A call of an async method runs synchronously up to its next await of    *)
(* storage I/O (or of a migration function) and is resumed later; calls    *)
(* that are suspended interleave.  The storage applies an operation when   *)
(* it is issued and the promise settles in a later step.                   *)
(***************************************************************************)
EXTENDS Integers, Sequences, FiniteSets, TLC

VARIABLES
  store,        \* AsyncStorage: key -> JSON text, DOMAIN = the keys present
  defaultMeta,  \* #defaultMeta, the constructor's argument
  dbCache,      \* #dbCache: [defined, val: namespaced key -> object]
  dbMetaCache,  \* #dbMetaCache: [defined, val: DBInfo]
  dbInstallId,  \* #dbInstallId: [defined, val: the identifier]
  uuids,        \* how many identifiers randomUUID has generated
  ioError,      \* TRUE while the storage fails the operations issued to it
  proc,         \* the calls in flight: one frame per slot; a frame's log
                \* lists what the call invoked (migration functions, the
                \* storage read of get), startVersion is the persisted
                \* lastMigrationVersion when it was made (-1: no record),
                \* failures the ways its migration functions and its
                \* storage operations failed, rejected whether the storage
                \* operation it awaits has failed
  calls,        \* number of calls started so far
  initCount,    \* how many times #init ran to its end on this instance
  initReset,    \* TRUE once #init replaced a cache that held entries
  runs,         \* per migration function: how many times it was invoked
  prev          \* the call that returned last, what the cache held for its
                \* key when it returned, and whether purgeCache was called
                \* since

vars == <<store, defaultMeta, dbCache, dbMetaCache, dbInstallId, uuids,
          ioError, proc, calls, initCount, initReset, runs, prev>>

----------------------------------------------------------------------------
(* Bounds and input sets *)

\* calls started in one behaviour, purgeCache() not counted
MaxCalls == 3

\* calls that may be in flight together
MaxInFlight == 2

Procs == 1..MaxInFlight

metaKey == "ns342xcv334Meta"

installIdKey == "ns342xcv334InstallId"

\* logical keys handed to get/put/update/del/cacheGet; "" is the falsy key
Keys == {"", "testing"}

\* values handed to put
PutValues == {[a |-> 1, b |-> 1], [a |-> 2]}

\* partial values handed to update
UpdateValues == {[a |-> 2], [b |-> 2]}

\* partial DBInfo handed to putMeta
MetaPartials ==
  {[currUser |-> "bob"], [currUser |-> ""], [lastMigrationVersion |-> 3]}

\* the constructor's defaultMeta (src/kvdb.test.ts)
DefaultMetas == {[lastMigrationVersion |-> 0, currUser |-> "guest"]}

----------------------------------------------------------------------------
(* JavaScript values *)

Undefined == [defined |-> FALSE, val |-> <<>>]

Defined(x) == [defined |-> TRUE, val |-> x]

Null == [null |-> TRUE, text |-> <<>>]

\* the order in which JSON.stringify writes the properties of the objects
\* that occur here
PropertyOrder == <<"a", "b", "lastMigrationVersion", "currUser">>

\* JSON.stringify of a flat object: the text, as its name/value pairs
JSONstringify(o) ==
  LET present == SelectSeq(PropertyOrder, LAMBDA f : f \in DOMAIN o)
  IN  [i \in 1..Len(present) |-> <<present[i], o[present[i]]>>]

\* a stored text that is not JSON
Malformed == <<<<"}", 0>>>>

IsJSON(t) == t = <<>> \/ t[1][1] # "}"

\* JSON.parse of such a text
JSONparse(t) ==
  [f \in {t[i][1] : i \in 1..Len(t)} |->
     LET i == CHOOSE j \in 1..Len(t) : t[j][1] = f IN t[i][2]]

\* Object.assign(target, source)
ObjectAssign(target, source) ==
  [f \in DOMAIN target \cup DOMAIN source |->
     IF f \in DOMAIN source THEN source[f] ELSE target[f]]

\* AsyncStorage.getItem
getItem(s, k) ==
  IF k \in DOMAIN s THEN [null |-> FALSE, text |-> s[k]] ELSE Null

\* AsyncStorage.setItem
setItem(s, k, text) ==
  [x \in DOMAIN s \cup {k} |-> IF x = k THEN text ELSE s[x]]

\* a removeItem that leaves the entry in the storage
removeItemKeeping(s, k) == s

\* AsyncStorage.removeItem
removeItem(s, k) == [x \in DOMAIN s \ {k} |-> s[x]]

\* the delete operator on the cache object
DeleteProperty(o, k) == [x \in DOMAIN o \ {k} |-> o[x]]

\* o[k] = v
SetProperty(o, k, v) == [x \in DOMAIN o \cup {k} |-> IF x = k THEN v ELSE o[x]]

----------------------------------------------------------------------------
(* Calls in flight *)

NoResult == [kind |-> "none", val |-> <<>>]

NoTable == [null |-> TRUE, order |-> <<>>, fns |-> <<>>]

NoStoredMeta == [alias |-> FALSE, val |-> <<>>]

IdleFrame ==
  [op |-> "idle", k |-> "", v |-> <<>>, table |-> NoTable, m |-> <<>>,
   pc |-> "idle", stack |-> <<>>, ret |-> FALSE, userKey |-> "",
   json |-> Null, storedMeta |-> NoStoredMeta, sortedVersions |-> <<>>,
   vi |-> 0, fi |-> 0, lmv |-> 0, settled |-> "", result |-> NoResult,
   log |-> <<>>, startVersion |-> -1, failures |-> {}, rejected |-> FALSE]

\* the places where a call is suspended on a promise
AwaitStorage == {"getMeta_await", "putMeta_await", "put_await", "get_await",
                 "del_await", "update_await", "getInstallId_await",
                 "getInstallId_set_await"}

AwaitMigrationF == {"migrate_await"}

Suspended == AwaitStorage \cup AwaitMigrationF

Goto(st, p, label) == [st EXCEPT !.proc[p].pc = label]

\* call an async method of the class and continue at `back` when it returns
CallSub(st, p, label, back) ==
  [st EXCEPT !.proc[p].pc = label, !.proc[p].stack = <<back>> \o @]

Return(st, p) ==
  [st EXCEPT !.proc[p].pc = Head(st.proc[p].stack), !.proc[p].stack = Tail(@)]

\* the call's promise settles: only its arguments and result are kept
Finish(st, p, res) ==
  [st EXCEPT !.proc[p] =
     [IdleFrame EXCEPT !.op = st.proc[p].op, !.k = st.proc[p].k,
                       !.v = st.proc[p].v, !.table = st.proc[p].table,
                       !.m = IF st.proc[p].op = "callPutMeta"
                             THEN st.proc[p].m
                             ELSE <<>>,
                       !.log = st.proc[p].log,
                       !.startVersion = st.proc[p].startVersion,
                       !.failures = st.proc[p].failures,
                       !.pc = "done", !.result = res]]

Value(x) == [kind |-> "value", val |-> x]

Void == [kind |-> "void", val |-> <<>>]

UndefinedResult == [kind |-> "undefined", val |-> <<>>]

NullResult == [kind |-> "null", val |-> <<>>]

Thrown == [kind |-> "throw", val |-> <<>>]

\* an exception that no method catches
ThrowUncaught(st, p) == Finish(st, p, Thrown)

\* an exception: migrate catches it and returns false (lines 268-271), the
\* other methods reject
Throw(st, p) ==
  IF st.proc[p].op = "migrate"
  THEN Finish(st, p, Value(FALSE))
  ELSE Finish(st, p, Thrown)

\* an awaited storage operation or JSON.parse throws
Fails(st, p, how) ==
  Throw([st EXCEPT !.proc[p].failures = @ \cup {how}], p)

\* await AsyncStorage.getItem(key): issued now, settled at `await`; a storage
\* that fails rejects it
ReadItem(st, p, key, await) ==
  IF st.ioError
  THEN [st EXCEPT !.proc[p].rejected = TRUE, !.proc[p].pc = await]
  ELSE [st EXCEPT !.proc[p].json = getItem(st.store, key),
                  !.proc[p].pc = await]

\* await AsyncStorage.setItem(key, text); a storage that fails rejects it and
\* keeps what it had
WriteItem(st, p, key, text, await) ==
  IF st.ioError
  THEN [st EXCEPT !.proc[p].rejected = TRUE, !.proc[p].pc = await]
  ELSE [st EXCEPT !.store = setItem(@, key, text), !.proc[p].pc = await]

\* await AsyncStorage.removeItem(key)
RemoveItem(st, p, key, await) ==
  IF st.ioError
  THEN [st EXCEPT !.proc[p].rejected = TRUE, !.proc[p].pc = await]
  ELSE [st EXCEPT !.store = removeItem(@, key), !.proc[p].pc = await]

\* a migrate call that holds the metadata object which getMeta now replaces
\* keeps the object it was given
Detach(st) ==
  [st EXCEPT !.proc =
     [q \in DOMAIN st.proc |->
        IF st.proc[q].storedMeta.alias
        THEN [st.proc[q] EXCEPT !.storedMeta =
                [alias |-> FALSE, val |-> st.dbMetaCache.val]]
        ELSE st.proc[q]]]

\* getMeta falling back to the constructor's defaults when nothing is stored
getMetaOrDefault(st, p) ==
  LET f == st.proc[p] IN
  CASE f.pc = "getMeta" ->
         IF st.dbMetaCache.defined
         THEN Return([st EXCEPT !.proc[p].ret = TRUE], p)
         ELSE ReadItem(st, p, metaKey, "getMeta_await")
    [] f.pc = "getMeta_await" ->
         IF f.rejected THEN Fails(st, p, "read")
         ELSE IF ~f.json.null /\ ~IsJSON(f.json.text) THEN Fails(st, p, "decode")
         ELSE
         LET s1 == IF ~f.json.null
                   THEN [Detach(st) EXCEPT
                           !.dbMetaCache = Defined(JSONparse(f.json.text))]
                   ELSE [st EXCEPT !.dbMetaCache = Defined(st.defaultMeta)]
         IN  Return([s1 EXCEPT !.proc[p].ret = s1.dbMetaCache.defined,
                               !.proc[p].json = Null], p)

getMeta(st, p) ==
  LET f == st.proc[p] IN
  CASE f.pc = "getMeta" ->
         IF st.dbMetaCache.defined
         THEN Return([st EXCEPT !.proc[p].ret = TRUE], p)
         ELSE ReadItem(st, p, metaKey, "getMeta_await")
    [] f.pc = "getMeta_await" ->
         IF f.rejected THEN Fails(st, p, "read")
         ELSE IF ~f.json.null /\ ~IsJSON(f.json.text) THEN Fails(st, p, "decode")
         ELSE
         LET s1 == IF ~f.json.null
                   THEN [Detach(st) EXCEPT
                           !.dbMetaCache = Defined(JSONparse(f.json.text))]
                   ELSE st
         IN  Return([s1 EXCEPT !.proc[p].ret = s1.dbMetaCache.defined,
                               !.proc[p].json = Null], p)

\* randomUUID(): the text of an identifier that was not generated before
randomUUID(n) == <<<<"uuid", n + 1>>>>

getInstallId(st, p) ==
  LET f == st.proc[p] IN
  CASE f.pc = "getInstallId" ->
         IF st.dbInstallId.defined
         THEN Finish(st, p, Value(st.dbInstallId.val))
         ELSE ReadItem(st, p, installIdKey, "getInstallId_await")
    [] f.pc = "getInstallId_await" ->
         IF f.rejected THEN Fails(st, p, "read")
         ELSE IF ~f.json.null
         THEN Finish([st EXCEPT !.dbInstallId = Defined(f.json.text)], p,
                     Value(f.json.text))
         ELSE LET dbid == randomUUID(st.uuids)
              IN  WriteItem([st EXCEPT
                               !.uuids = @ + 1,
                               !.proc[p].json = [null |-> FALSE, text |-> dbid]],
                            p, installIdKey, dbid, "getInstallId_set_await")
    [] f.pc = "getInstallId_set_await" ->
         IF f.rejected THEN Fails(st, p, "write")
         ELSE
         Finish([st EXCEPT !.dbInstallId = Defined(f.json.text)], p,
                Value(f.json.text))

putMeta(st, p) ==
  LET f == st.proc[p] IN
  CASE f.pc = "putMeta" ->
         LET merged == IF ~st.dbMetaCache.defined
                       THEN ObjectAssign(st.defaultMeta, f.m)
                       ELSE ObjectAssign(st.dbMetaCache.val, f.m)
         IN  WriteItem([st EXCEPT !.dbMetaCache = Defined(merged)], p,
                       metaKey, JSONstringify(merged), "putMeta_await")
    [] f.pc = "putMeta_await" ->
         IF f.rejected THEN Fails(st, p, "write") ELSE Return(st, p)

init(st, p) ==
  LET f == st.proc[p] IN
  CASE f.pc = "init" -> CallSub(st, p, "getMeta", "init_1")
    [] f.pc = "init_1" ->
         IF ~f.ret
         THEN CallSub([st EXCEPT !.proc[p].m = st.defaultMeta], p,
                      "putMeta", "init_2")
         ELSE Goto(st, p, "init_2")
    [] f.pc = "init_2" ->
         Return([st EXCEPT
                   !.dbCache = Defined(<<>>),
                   !.proc[p].m = <<>>,
                   !.initCount = @ + 1,
                   !.initReset = @ \/ (st.dbCache.defined
                                       /\ DOMAIN st.dbCache.val # {})], p)

makeUserKey(st, p) ==
  LET f == st.proc[p] IN
  CASE f.pc = "makeUserKey" -> CallSub(st, p, "getMeta", "makeUserKey_1")
    [] f.pc = "makeUserKey_1" ->
         IF ~f.ret
         THEN Throw(st, p)
         ELSE Return([st EXCEPT !.proc[p].userKey =
                        st.dbMetaCache.val.currUser \o ":" \o f.k], p)

cacheMakeUserKey(st, k) ==
  IF ~st.dbMetaCache.defined \/ st.dbMetaCache.val.currUser = ""
  THEN ""
  ELSE st.dbMetaCache.val.currUser \o ":" \o k

put(st, p) ==
  LET f == st.proc[p] IN
  CASE f.pc = "put" ->
         IF f.k = "" THEN Throw(st, p)
         ELSE IF ~st.dbCache.defined THEN CallSub(st, p, "init", "put_1")
         ELSE Goto(st, p, "put_1")
    [] f.pc = "put_1" -> CallSub(st, p, "makeUserKey", "put_2")
    [] f.pc = "put_2" ->
         WriteItem([st EXCEPT !.dbCache.val = SetProperty(@, f.userKey, f.v)],
                   p, f.userKey, JSONstringify(f.v), "put_await")
    [] f.pc = "put_await" ->
         IF f.rejected THEN Fails(st, p, "write") ELSE Finish(st, p, Void)

\* get returning what it read without saving it in the cache
getNotCaching(st, p) ==
  LET f == st.proc[p] IN
  CASE f.pc = "get" ->
         IF f.k = "" THEN Throw(st, p)
         ELSE IF ~st.dbCache.defined THEN CallSub(st, p, "init", "get_1")
         ELSE Goto(st, p, "get_1")
    [] f.pc = "get_1" -> CallSub(st, p, "makeUserKey", "get_2")
    [] f.pc = "get_2" ->
         IF f.userKey \in DOMAIN st.dbCache.val
         THEN Finish(st, p, Value(st.dbCache.val[f.userKey]))
         ELSE ReadItem([st EXCEPT !.proc[p].log = Append(@, "getItem")], p,
                       f.userKey, "get_await")
    [] f.pc = "get_await" ->
         IF f.rejected
         THEN Finish([st EXCEPT !.proc[p].failures = @ \cup {"read"}], p,
                     UndefinedResult)
         ELSE IF ~f.json.null /\ ~IsJSON(f.json.text)
         THEN Finish([st EXCEPT !.proc[p].failures = @ \cup {"decode"}], p,
                     UndefinedResult)
         ELSE IF ~f.json.null
         THEN Finish(st, p, Value(JSONparse(f.json.text)))
         ELSE Finish(st, p, UndefinedResult)

get(st, p) ==
  LET f == st.proc[p] IN
  CASE f.pc = "get" ->
         IF f.k = "" THEN Throw(st, p)
         ELSE IF ~st.dbCache.defined THEN CallSub(st, p, "init", "get_1")
         ELSE Goto(st, p, "get_1")
    [] f.pc = "get_1" -> CallSub(st, p, "makeUserKey", "get_2")
    [] f.pc = "get_2" ->
         IF f.userKey \in DOMAIN st.dbCache.val
         THEN Finish(st, p, Value(st.dbCache.val[f.userKey]))
         ELSE ReadItem([st EXCEPT !.proc[p].log = Append(@, "getItem")], p,
                       f.userKey, "get_await")
    [] f.pc = "get_await" ->
         IF f.rejected
         THEN Finish([st EXCEPT !.proc[p].failures = @ \cup {"read"}], p,
                     UndefinedResult)
         ELSE IF ~f.json.null /\ ~IsJSON(f.json.text)
         THEN Finish([st EXCEPT !.proc[p].failures = @ \cup {"decode"}], p,
                     UndefinedResult)
         ELSE IF ~f.json.null
         THEN Finish([st EXCEPT !.dbCache.val =
                        SetProperty(@, f.userKey, JSONparse(f.json.text))],
                     p, Value(JSONparse(f.json.text)))
         ELSE Finish(st, p, UndefinedResult)

cacheGet(st, p) ==
  LET f == st.proc[p]
      userKey == cacheMakeUserKey(st, f.k)
  IN  IF f.k = "" THEN Throw(st, p)
      ELSE IF ~st.dbCache.defined THEN Finish(st, p, NullResult)
      ELSE IF userKey # ""
      THEN IF userKey \in DOMAIN st.dbCache.val
           THEN Finish(st, p, Value(st.dbCache.val[userKey]))
           ELSE Finish(st, p, UndefinedResult)
      ELSE Finish(st, p, NullResult)

del(st, p) ==
  LET f == st.proc[p] IN
  CASE f.pc = "del" ->
         IF f.k = "" THEN Throw(st, p)
         ELSE IF ~st.dbCache.defined THEN CallSub(st, p, "init", "del_1")
         ELSE Goto(st, p, "del_1")
    [] f.pc = "del_1" -> CallSub(st, p, "makeUserKey", "del_2")
    [] f.pc = "del_2" ->
         RemoveItem([st EXCEPT !.dbCache.val = DeleteProperty(@, f.userKey)],
                    p, f.userKey, "del_await")
    [] f.pc = "del_await" ->
         IF f.rejected THEN Fails(st, p, "write") ELSE Finish(st, p, Void)

\* update replacing the cached object by the partial value instead of merging
updateReplacing(st, p) ==
  LET f == st.proc[p] IN
  CASE f.pc = "update" ->
         IF f.k = "" THEN Throw(st, p)
         ELSE IF ~st.dbCache.defined THEN CallSub(st, p, "init", "update_1")
         ELSE Goto(st, p, "update_1")
    [] f.pc = "update_1" -> CallSub(st, p, "makeUserKey", "update_2")
    [] f.pc = "update_2" ->
         WriteItem([st EXCEPT !.dbCache.val = SetProperty(@, f.userKey, f.v)],
                   p, f.userKey, JSONstringify(f.v), "update_await")
    [] f.pc = "update_await" ->
         IF f.rejected THEN Fails(st, p, "write") ELSE Finish(st, p, Void)

\* update writing the merged object to the storage, as put would
updateStoringMerged(st, p) ==
  LET f == st.proc[p] IN
  CASE f.pc = "update" ->
         IF f.k = "" THEN Throw(st, p)
         ELSE IF ~st.dbCache.defined THEN CallSub(st, p, "init", "update_1")
         ELSE Goto(st, p, "update_1")
    [] f.pc = "update_1" -> CallSub(st, p, "makeUserKey", "update_2")
    [] f.pc = "update_2" ->
         LET old == IF f.userKey \in DOMAIN st.dbCache.val
                    THEN st.dbCache.val[f.userKey]
                    ELSE <<>>
         IN  WriteItem([st EXCEPT !.dbCache.val =
                          SetProperty(@, f.userKey, ObjectAssign(old, f.v))],
                       p, f.userKey, JSONstringify(ObjectAssign(old, f.v)),
                       "update_await")
    [] f.pc = "update_await" ->
         IF f.rejected THEN Fails(st, p, "write") ELSE Finish(st, p, Void)

update(st, p) ==
  LET f == st.proc[p] IN
  CASE f.pc = "update" ->
         IF f.k = "" THEN Throw(st, p)
         ELSE IF ~st.dbCache.defined THEN CallSub(st, p, "init", "update_1")
         ELSE Goto(st, p, "update_1")
    [] f.pc = "update_1" -> CallSub(st, p, "makeUserKey", "update_2")
    [] f.pc = "update_2" ->
         LET old == IF f.userKey \in DOMAIN st.dbCache.val
                    THEN st.dbCache.val[f.userKey]
                    ELSE <<>>
         IN  WriteItem([st EXCEPT !.dbCache.val =
                          SetProperty(@, f.userKey, ObjectAssign(old, f.v))],
                       p, f.userKey, JSONstringify(f.v), "update_await")
    [] f.pc = "update_await" ->
         IF f.rejected THEN Fails(st, p, "write") ELSE Finish(st, p, Void)

purgeCache(st, p) == Finish([st EXCEPT !.dbCache = Defined(<<>>)], p, Void)

----------------------------------------------------------------------------
(* The migration runner *)

\* the migration functions of src/kvdb.test.ts, and one per further key
migTable1 ==
  [null |-> FALSE, order |-> <<"1">>,
   fns |-> [x \in {"1"} |-> <<"migration1", "migration2">>]]

migTable2 ==
  [null |-> FALSE, order |-> <<"1", "2">>,
   fns |-> ("1" :> <<"migration1", "migration2">>) @@ ("2" :> <<"migration3">>)]

emptyTable == [null |-> FALSE, order |-> <<>>, fns |-> <<>>]

zeroTable ==
  [null |-> FALSE, order |-> <<"0">>, fns |-> [x \in {"0"} |-> <<"migration0">>]]

zeroOneTable ==
  [null |-> FALSE, order |-> <<"0", "1">>,
   fns |-> ("0" :> <<"migration0">>) @@ ("1" :> <<"migration1", "migration2">>)]

negativeTable ==
  [null |-> FALSE, order |-> <<"-1">>,
   fns |-> [x \in {"-1"} |-> <<"migrationNeg">>]]

negativeOneTable ==
  [null |-> FALSE, order |-> <<"-1", "1">>,
   fns |-> ("-1" :> <<"migrationNeg">>) @@ ("1" :> <<"migration1", "migration2">>)]

abcTable ==
  [null |-> FALSE, order |-> <<"abc">>,
   fns |-> [x \in {"abc"} |-> <<"migrationAbc">>]]

abcOneTable ==
  [null |-> FALSE, order |-> <<"abc", "1">>,
   fns |-> ("abc" :> <<"migrationAbc">>) @@ ("1" :> <<"migration1", "migration2">>)]

Tables == {NoTable, emptyTable, migTable1, migTable2, zeroTable, zeroOneTable,
           negativeTable, negativeOneTable, abcTable, abcOneTable}

MigrationFs == {"migration0", "migration1", "migration2", "migration3",
                "migrationNeg", "migrationAbc"}

\* how an awaited migration function settles
Outcomes == {"true", "false", "throw"}

\* JavaScript numbers: an integer or NaN
Num(n) == [nan |-> FALSE, n |-> n]

NaN == [nan |-> TRUE, n |-> 0]

\* the decimal integer literals among the property names, from -1 up
IntegerNames == <<"-1", "0", "1", "2", "3">>

\* parseInt(s, 10)
parseInt(s) ==
  IF \E i \in 1..Len(IntegerNames) : IntegerNames[i] = s
  THEN Num((CHOOSE i \in 1..Len(IntegerNames) : IntegerNames[i] = s) - 2)
  ELSE NaN

\* String(v), the property name that table[v] reads
ToPropertyKey(v) == IF v.nan THEN "NaN" ELSE IntegerNames[v.n + 2]

\* the comparator with its operands exchanged: (a, b) => b - a
CompareVersionsDescending(a, b) == IF a.nan \/ b.nan THEN 0 ELSE b.n - a.n

\* (a, b) => a - b as Array.prototype.sort reads it: NaN counts as 0
CompareVersions(a, b) == IF a.nan \/ b.nan THEN 0 ELSE a.n - b.n

\* insert x into a sorted array behind every element that does not compare
\* greater
RECURSIVE Insert(_, _)
Insert(sorted, x) ==
  IF sorted = <<>> \/ CompareVersions(sorted[Len(sorted)], x) <= 0
  THEN Append(sorted, x)
  ELSE Append(Insert(SubSeq(sorted, 1, Len(sorted) - 1), x), sorted[Len(sorted)])

\* vArray.sort((a, b) => a - b): a stable sort
RECURSIVE SortVersions(_)
SortVersions(a) ==
  IF a = <<>> THEN <<>>
  ELSE Insert(SortVersions(SubSeq(a, 1, Len(a) - 1)), a[Len(a)])

\* Object.keys(table): the array indices ascending, then the other names in
\* the order they were added
ObjectKeys(t) ==
  LET isIndex(s) == ~parseInt(s).nan /\ parseInt(s).n >= 0
      indices == {parseInt(t.order[i]).n :
                    i \in {j \in 1..Len(t.order) : isIndex(t.order[j])}}
      others == SelectSeq(t.order, LAMBDA s : ~isIndex(s))
  IN  [i \in 1..Cardinality(indices) |->
         ToPropertyKey(Num(CHOOSE n \in indices :
                             Cardinality({x \in indices : x < n}) = i - 1))]
      \o others

\* vArray.find((v) => v <= 0), read as a condition: an element was found and
\* it is truthy
FoundNonPositive(vArray) ==
  LET hits == {i \in 1..Len(vArray) : ~vArray[i].nan /\ vArray[i].n <= 0}
  IN  hits # {} /\ vArray[CHOOSE i \in hits : \A j \in hits : i <= j].n # 0

validateMigrationVersionNumbers(allVersions) ==
  LET vArray == [i \in 1..Len(allVersions) |-> parseInt(allVersions[i])]
  IN  IF FoundNonPositive(vArray)
      THEN [passed |-> FALSE, sortedVersions |-> <<>>]
      ELSE [passed |-> TRUE, sortedVersions |-> SortVersions(vArray)]

\* a migration function that returns false ends the run like one that throws
MigrationFThrewOrFailed(settled) == settled \in {"throw", "false"}

\* await migrationF(this) throws (line 252)
MigrationFThrew(settled) == settled = "throw"

\* the comparison off by one: storedMeta.lastMigrationVersion > v
AlreadyAppliedStrict(stored, v) == ~v.nan /\ stored > v.n

\* storedMeta.lastMigrationVersion >= v (line 246)
AlreadyApplied(stored, v) == ~v.nan /\ stored >= v.n

\* storedMeta.lastMigrationVersion as the call reads it
StoredVersion(st, p) ==
  IF st.proc[p].storedMeta.alias
  THEN st.dbMetaCache.val.lastMigrationVersion
  ELSE st.proc[p].storedMeta.val.lastMigrationVersion

migrate(st, p) ==
  LET f == st.proc[p] IN
  CASE f.pc = "migrate" ->
         IF f.table.null THEN Finish(st, p, Value(FALSE))
         ELSE CallSub(st, p, "getMeta", "migrate_1")
    [] f.pc = "migrate_1" ->
         LET checked == validateMigrationVersionNumbers(ObjectKeys(f.table))
         IN  IF ~f.ret THEN Finish(st, p, Value(FALSE))
             ELSE IF ~checked.passed THEN Finish(st, p, Value(FALSE))
             ELSE [st EXCEPT !.proc[p].storedMeta = [alias |-> TRUE, val |-> <<>>],
                             !.proc[p].sortedVersions = checked.sortedVersions,
                             !.proc[p].lmv = 0,
                             !.proc[p].vi = 1,
                             !.proc[p].pc = "migrate_loop"]
    [] f.pc = "migrate_loop" ->
         IF f.vi > Len(f.sortedVersions) THEN Goto(st, p, "migrate_end")
         ELSE IF AlreadyApplied(StoredVersion(st, p), f.sortedVersions[f.vi])
         THEN [st EXCEPT !.proc[p].vi = @ + 1]
         ELSE IF ToPropertyKey(f.sortedVersions[f.vi]) \notin DOMAIN f.table.fns
         THEN Throw(st, p)
         ELSE [st EXCEPT !.proc[p].fi = 1, !.proc[p].pc = "migrate_f"]
    [] f.pc = "migrate_f" ->
         LET v == f.sortedVersions[f.vi]
             list == f.table.fns[ToPropertyKey(v)]
         IN  IF f.fi > Len(list)
             THEN [st EXCEPT !.proc[p].lmv = v.n, !.proc[p].vi = @ + 1,
                             !.proc[p].fi = 0, !.proc[p].pc = "migrate_loop"]
             ELSE [st EXCEPT !.runs[list[f.fi]] = @ + 1,
                             !.proc[p].log = Append(@, list[f.fi]),
                             !.proc[p].pc = "migrate_await"]
    [] f.pc = "migrate_await" ->
         LET s1 == [st EXCEPT !.proc[p].failures =
                      @ \cup ({f.settled} \ {"true"})]
         IN  IF MigrationFThrew(f.settled) THEN Throw(s1, p)
             ELSE [s1 EXCEPT !.proc[p].fi = @ + 1, !.proc[p].settled = "",
                             !.proc[p].pc = "migrate_f"]
    [] f.pc = "migrate_end" ->
         IF f.lmv # 0
         THEN CallSub([st EXCEPT !.proc[p].m = [lastMigrationVersion |-> f.lmv]],
                      p, "putMeta", "migrate_2")
         ELSE Finish(st, p, Value(TRUE))
    [] f.pc = "migrate_2" -> Finish(st, p, Value(TRUE))

\* public getMeta() and putMeta(m) called by the application
callGetMeta(st, p) ==
  LET f == st.proc[p] IN
  CASE f.pc = "callGetMeta" -> CallSub(st, p, "getMeta", "callGetMeta_1")
    [] f.pc = "callGetMeta_1" ->
         IF f.ret THEN Finish(st, p, Value(st.dbMetaCache.val))
         ELSE Finish(st, p, UndefinedResult)

callPutMeta(st, p) ==
  LET f == st.proc[p] IN
  CASE f.pc = "callPutMeta" -> CallSub(st, p, "putMeta", "callPutMeta_1")
    [] f.pc = "callPutMeta_1" -> Finish(st, p, Void)

----------------------------------------------------------------------------
(* Running a call up to its next await *)

Step(st, p) ==
  LET pc == st.proc[p].pc IN
  CASE pc \in {"getMeta", "getMeta_await"} -> getMeta(st, p)
    [] pc \in {"putMeta", "putMeta_await"} -> putMeta(st, p)
    [] pc \in {"init", "init_1", "init_2"} -> init(st, p)
    [] pc \in {"makeUserKey", "makeUserKey_1"} -> makeUserKey(st, p)
    [] pc \in {"put", "put_1", "put_2", "put_await"} -> put(st, p)
    [] pc \in {"get", "get_1", "get_2", "get_await"} -> get(st, p)
    [] pc \in {"del", "del_1", "del_2", "del_await"} -> del(st, p)
    [] pc \in {"update", "update_1", "update_2", "update_await"} -> update(st, p)
    [] pc \in {"migrate", "migrate_1", "migrate_loop", "migrate_f",
               "migrate_await", "migrate_end", "migrate_2"} -> migrate(st, p)
    [] pc \in {"callGetMeta", "callGetMeta_1"} -> callGetMeta(st, p)
    [] pc \in {"callPutMeta", "callPutMeta_1"} -> callPutMeta(st, p)
    [] pc \in {"getInstallId", "getInstallId_await",
               "getInstallId_set_await"} -> getInstallId(st, p)
    [] pc = "cacheGet" -> cacheGet(st, p)
    [] pc = "purgeCache" -> purgeCache(st, p)

RECURSIVE Run(_, _)
Run(st, p) ==
  IF st.proc[p].pc \in Suspended \cup {"done"} THEN st ELSE Run(Step(st, p), p)

\* the state as one record, and back
Now ==
  [store |-> store, defaultMeta |-> defaultMeta, dbCache |-> dbCache,
   dbMetaCache |-> dbMetaCache, dbInstallId |-> dbInstallId, uuids |-> uuids,
   ioError |-> ioError, proc |-> proc, initCount |-> initCount, initReset |-> initReset,
   runs |-> runs]

Becomes(st) ==
  /\ store' = st.store
  /\ defaultMeta' = st.defaultMeta
  /\ dbCache' = st.dbCache
  /\ dbMetaCache' = st.dbMetaCache
  /\ dbInstallId' = st.dbInstallId
  /\ uuids' = st.uuids
  /\ ioError' = st.ioError
  /\ proc' = st.proc
  /\ initCount' = st.initCount
  /\ initReset' = st.initReset
  /\ runs' = st.runs

----------------------------------------------------------------------------
(* Actions *)

NoPrev ==
  [op |-> "none", k |-> "", v |-> <<>>, table |-> NoTable,
   result |-> NoResult, cached |-> Undefined, purged |-> FALSE]

InFlight == {q \in Procs : proc[q].pc # "idle"}

\* the metadata record in the storage, parsed
Persisted ==
  IF metaKey \in DOMAIN store /\ IsJSON(store[metaKey])
  THEN Defined(JSONparse(store[metaKey]))
  ELSE Undefined

\* its lastMigrationVersion; -1: no record, -2: the record is unreadable
PersistedVersion ==
  IF Persisted.defined THEN Persisted.val.lastMigrationVersion
  ELSE IF metaKey \in DOMAIN store THEN -2
  ELSE -1

Request(op, k, v, m, table) ==
  [IdleFrame EXCEPT !.op = op, !.pc = op, !.k = k, !.v = v, !.m = m,
                    !.table = table, !.startVersion = PersistedVersion]

\* fewer than `limit` calls are in flight and slot p is the first free one
CanStart(p, limit) ==
  /\ Cardinality(InFlight) < limit
  /\ p \notin InFlight
  /\ \A q \in Procs \ InFlight : p <= q

CanCall(p, limit) == calls < MaxCalls /\ CanStart(p, limit)

\* the application calls a method: the call runs to its first await
Called(p, req) ==
  /\ calls' = calls + 1
  /\ Becomes(Run([Now EXCEPT !.proc[p] = req], p))
  /\ UNCHANGED prev

Get(p, limit) ==
  \E k \in Keys :
    CanCall(p, limit) /\ Called(p, Request("get", k, <<>>, <<>>, NoTable))

Put(p, limit) ==
  \E k \in Keys, v \in PutValues :
    CanCall(p, limit) /\ Called(p, Request("put", k, v, <<>>, NoTable))

Update(p, limit) ==
  \E k \in Keys, v \in UpdateValues :
    CanCall(p, limit) /\ Called(p, Request("update", k, v, <<>>, NoTable))

Del(p, limit) ==
  \E k \in Keys :
    CanCall(p, limit) /\ Called(p, Request("del", k, <<>>, <<>>, NoTable))

CacheGet(p, limit) ==
  \E k \in Keys :
    CanCall(p, limit) /\ Called(p, Request("cacheGet", k, <<>>, <<>>, NoTable))

\* purgeCache() is synchronous: it has returned before anything else runs
PurgeCache(p, limit) ==
  /\ CanStart(p, limit)
  /\ Becomes(Run([Now EXCEPT !.proc[p] =
                    Request("purgeCache", "", <<>>, <<>>, NoTable)], p))
  /\ UNCHANGED <<calls, prev>>

GetMeta(p, limit) ==
  CanCall(p, limit) /\ Called(p, Request("callGetMeta", "", <<>>, <<>>, NoTable))

PutMeta(p, limit, partials) ==
  \E m \in partials :
    CanCall(p, limit) /\ Called(p, Request("callPutMeta", "", <<>>, m, NoTable))

GetInstallId(p, limit) ==
  CanCall(p, limit) /\ Called(p, Request("getInstallId", "", <<>>, <<>>, NoTable))

Migrate(p, limit, tables) ==
  \E t \in tables :
    CanCall(p, limit) /\ Called(p, Request("migrate", "", <<>>, <<>>, t))

\* the promise of a storage operation settles and the call goes on
StorageSettles(p) ==
  /\ proc[p].pc \in AwaitStorage
  /\ Becomes(Run(Step(Now, p), p))
  /\ UNCHANGED <<calls, prev>>

\* the awaited migration function returns true or false, or throws
MigrationFSettles(p) ==
  /\ proc[p].pc \in AwaitMigrationF
  /\ \E o \in Outcomes :
       Becomes(Run(Step([Now EXCEPT !.proc[p].settled = o], p), p))
  /\ UNCHANGED <<calls, prev>>

\* getCache()[currUser + ':' + k]
Cached(k) ==
  IF dbCache.defined /\ dbMetaCache.defined
     /\ (dbMetaCache.val.currUser \o ":" \o k) \in DOMAIN dbCache.val
  THEN Defined(dbCache.val[dbMetaCache.val.currUser \o ":" \o k])
  ELSE Undefined

\* the caller takes the result of a settled call
Returns(p) ==
  /\ proc[p].pc = "done"
  /\ proc' = [proc EXCEPT ![p] = IdleFrame]
  /\ prev' = IF proc[p].op = "purgeCache"
             THEN [prev EXCEPT !.purged = TRUE]
             ELSE [op |-> proc[p].op, k |-> proc[p].k, v |-> proc[p].v,
                   table |-> proc[p].table,
                   result |-> proc[p].result,
                   cached |-> Cached(proc[p].k),
                   purged |-> FALSE]
  /\ UNCHANGED <<store, defaultMeta, dbCache, dbMetaCache, dbInstallId, uuids,
                 ioError, calls, initCount, initReset, runs>>

\* a new KeyValueDB over the same storage, once no call is in flight
NewInstance ==
  /\ InFlight = {}
  /\ dbCache.defined \/ dbMetaCache.defined \/ dbInstallId.defined
  /\ dbCache' = Undefined
  /\ dbMetaCache' = Undefined
  /\ dbInstallId' = Undefined
  /\ initCount' = 0
  /\ initReset' = FALSE
  /\ prev' = NoPrev
  /\ UNCHANGED <<store, defaultMeta, uuids, ioError, proc, calls, runs>>

Init ==
  /\ store = <<>>
  /\ defaultMeta \in DefaultMetas
  /\ dbCache = Undefined
  /\ dbMetaCache = Undefined
  /\ dbInstallId = Undefined
  /\ uuids = 0
  /\ ioError = FALSE
  /\ proc = [p \in Procs |-> IdleFrame]
  /\ calls = 0
  /\ initCount = 0
  /\ initReset = FALSE
  /\ runs = [f \in MigrationFs |-> 0]
  /\ prev = NoPrev

\* tables handed to overlapping migrate calls
OverlapTables == {migTable1, migTable2}

\* partial DBInfo handed to putMeta while other calls may be in flight
OverlapPartials == {[currUser |-> "bob"]}

\* calls may overlap
Next ==
  \/ \E p \in Procs :
       \/ Get(p, MaxInFlight)
       \/ Put(p, MaxInFlight)
       \/ Update(p, MaxInFlight)
       \/ Del(p, MaxInFlight)
       \/ CacheGet(p, MaxInFlight)
       \/ PurgeCache(p, MaxInFlight)
       \/ GetMeta(p, MaxInFlight)
       \/ PutMeta(p, MaxInFlight, OverlapPartials)
       \/ Migrate(p, MaxInFlight, OverlapTables)
       \/ GetInstallId(p, MaxInFlight)
       \/ StorageSettles(p)
       \/ MigrationFSettles(p)
       \/ Returns(p)
  \/ NewInstance

Spec == Init /\ [][Next]_vars

\* every call is awaited before the next one is made
NextSeq ==
  \/ \E p \in Procs :
       \/ Get(p, 1)
       \/ Put(p, 1)
       \/ Update(p, 1)
       \/ Del(p, 1)
       \/ CacheGet(p, 1)
       \/ PurgeCache(p, 1)
       \/ GetMeta(p, 1)
       \/ PutMeta(p, 1, MetaPartials)
       \/ Migrate(p, 1, Tables)
       \/ GetInstallId(p, 1)
       \/ StorageSettles(p)
       \/ MigrationFSettles(p)
       \/ Returns(p)
  \/ NewInstance

SpecSeq == Init /\ [][NextSeq]_vars

\* the storage starts to fail: what is issued from now on is rejected
StorageBreaks ==
  /\ ~ioError
  /\ ioError' = TRUE
  /\ UNCHANGED <<store, defaultMeta, dbCache, dbMetaCache, dbInstallId, uuids,
                 proc, calls, initCount, initReset, runs, prev>>

StorageRecovers ==
  /\ ioError
  /\ ioError' = FALSE
  /\ UNCHANGED <<store, defaultMeta, dbCache, dbMetaCache, dbInstallId, uuids,
                 proc, calls, initCount, initReset, runs, prev>>

\* a stored JSON text is damaged while no call is in flight
Corrupts ==
  /\ InFlight = {}
  /\ \E key \in DOMAIN store \ {installIdKey} :
       /\ IsJSON(store[key])
       /\ store' = [store EXCEPT ![key] = Malformed]
  /\ UNCHANGED <<defaultMeta, dbCache, dbMetaCache, dbInstallId, uuids, ioError,
                 proc, calls, initCount, initReset, runs, prev>>

\* an application that reads, writes, deletes and migrates, awaiting every
\* call, while the storage may fail and stored texts may be damaged
NextFaults ==
  \/ \E p \in Procs :
       \/ Get(p, 1)
       \/ Put(p, 1)
       \/ Del(p, 1)
       \/ PurgeCache(p, 1)
       \/ Migrate(p, 1, OverlapTables)
       \/ GetInstallId(p, 1)
       \/ StorageSettles(p)
       \/ MigrationFSettles(p)
       \/ Returns(p)
  \/ NewInstance
  \/ StorageBreaks
  \/ StorageRecovers
  \/ Corrupts

SpecFaults == Init /\ [][NextFaults]_vars

----------------------------------------------------------------------------
(* Claims *)

Quiescent == InFlight = {}

\* the call in slot p has settled and its caller has not yet taken the result
Done(p, op) == proc[p].pc = "done" /\ proc[p].op = op

\* C1: with no operation in flight, every entry of the user-data cache equals
\* the decoded value the storage holds under the same namespaced key.
C1_CacheCoherent ==
  Quiescent /\ dbCache.defined =>
    \A key \in DOMAIN dbCache.val :
      /\ key \in DOMAIN store
      /\ JSONparse(store[key]) = dbCache.val[key]

\* C2: #init runs at most once on an instance, so it never replaces a cache
\* into which another call has already written an entry.
C2_InitAtMostOnce == initCount <= 1 /\ ~initReset

\* C3, for the operation the claim says is the only one to change it: no step
\* of a migrate call lowers the persisted lastMigrationVersion.
C3_MigrateNeverLowersVersion ==
  [][\A p \in Procs :
       proc[p].op = "migrate" /\ proc'[p] # proc[p]
         => PersistedVersion' >= PersistedVersion]_vars

\* C4: over the lifetime of the store no migration function is invoked more
\* than once, whether the migrate calls follow one another or overlap and
\* whether or not a function throws.
C4_EachMigrationRunsOnce == \A f \in MigrationFs : runs[f] <= 1

\* the integer versions a table names
Versions(t) ==
  {parseInt(key).n : key \in {x \in DOMAIN t.fns : ~parseInt(x).nan}}

\* every key of the table is a positive integer
ValidTable(t) ==
  ~t.null /\ \A key \in DOMAIN t.fns : ~parseInt(key).nan /\ parseInt(key).n > 0

\* the functions of the versions vs, version by version in ascending order
RECURSIVE InOrder(_, _)
InOrder(t, vs) ==
  IF vs = {} THEN <<>>
  ELSE LET v == CHOOSE x \in vs : \A y \in vs : x <= y
       IN  t.fns[IntegerNames[v + 2]] \o InOrder(t, vs \ {v})

Largest(vs) == CHOOSE x \in vs : \A y \in vs : y <= x

\* C5: a migrate call on an initialized store whose table has no version
\* above the stored lastMigrationVersion invokes no migration function and
\* leaves the persisted lastMigrationVersion as it was.
C5_NothingNewNothingRun ==
  \A p \in Procs :
    /\ Done(p, "migrate")
    /\ ~proc[p].table.null
    /\ proc[p].startVersion >= 0
    /\ \A key \in DOMAIN proc[p].table.fns :
         ~parseInt(key).nan /\ parseInt(key).n <= proc[p].startVersion
    => /\ proc[p].log = <<>>
       /\ PersistedVersion = proc[p].startVersion

\* a second migrate with the same table directly after a first one that
\* returned true has settled
C5_Witness ==
  \E p \in Procs :
    /\ Done(p, "migrate")
    /\ proc[p].table = migTable1
    /\ prev.op = "migrate" /\ prev.table = migTable1
    /\ prev.result = Value(TRUE)
    /\ proc[p].startVersion = 1
    /\ proc[p].log = <<>>

\* C6: a migrate call on an initialized store with a valid table that returns
\* true has invoked the functions of the versions above the stored
\* lastMigrationVersion, version by version in ascending order and each list
\* in its order, and the persisted lastMigrationVersion is then the largest
\* of those versions.
C6_AscendingOrderAndFinalVersion ==
  \A p \in Procs :
    /\ Done(p, "migrate")
    /\ ValidTable(proc[p].table)
    /\ proc[p].startVersion >= 0
    /\ proc[p].result = Value(TRUE)
    => LET new == {v \in Versions(proc[p].table) : v > proc[p].startVersion}
       IN  /\ proc[p].log = InOrder(proc[p].table, new)
           /\ PersistedVersion =
                IF new = {} THEN proc[p].startVersion ELSE Largest(new)

\* table {1: [migration1, migration2], 2: [migration3]} applied from version 0
C6_Witness ==
  \E p \in Procs :
    /\ Done(p, "migrate")
    /\ proc[p].table = migTable2
    /\ proc[p].startVersion = 0
    /\ proc[p].result = Value(TRUE)
    /\ proc[p].log = <<"migration1", "migration2", "migration3">>
    /\ PersistedVersion = 2

\* C7: a migrate call whose table has a key that is not a positive integer
\* returns false, invokes no migration function and leaves the persisted
\* lastMigrationVersion as it was.
C7_InvalidKeyRejected ==
  \A p \in Procs :
    /\ Done(p, "migrate")
    /\ ~proc[p].table.null
    /\ \E key \in DOMAIN proc[p].table.fns :
         parseInt(key).nan \/ parseInt(key).n <= 0
    => /\ proc[p].result = Value(FALSE)
       /\ proc[p].log = <<>>
       /\ PersistedVersion = proc[p].startVersion

\* C8: a migrate call whose table is absent or has no versions returns false.
C8_EmptyTableRejected ==
  \A p \in Procs :
    /\ Done(p, "migrate")
    /\ proc[p].table.null \/ DOMAIN proc[p].table.fns = {}
    => proc[p].result = Value(FALSE)

\* C9: a migrate call made while the storage holds no metadata record returns
\* false, invokes no migration function and creates no metadata record, in
\* the storage or in the instance.
C9_NoDatabaseNoMigration ==
  \A p \in Procs :
    Done(p, "migrate") /\ proc[p].startVersion = -1
    => /\ proc[p].result = Value(FALSE)
       /\ proc[p].log = <<>>
       /\ metaKey \notin DOMAIN store
       /\ ~dbMetaCache.defined

\* migrate with the table of the tests on a store that was never used
C9_Witness ==
  \E p \in Procs :
    /\ Done(p, "migrate")
    /\ proc[p].table = migTable1
    /\ proc[p].startVersion = -1
    /\ proc[p].result = Value(FALSE)

\* C10: a get(k) that follows a completed put(k, v), with or without a
\* purgeCache in between, returns v and leaves the cache holding v under
\* currUser + ':' + k; after a purge it has read the storage.
C10_GetAfterPut ==
  \A p \in Procs :
    /\ Done(p, "get")
    /\ prev.op = "put" /\ prev.result = Void
    /\ prev.k = proc[p].k /\ prev.k # ""
    => LET userKey == dbMetaCache.val.currUser \o ":" \o proc[p].k
       IN  /\ proc[p].result = Value(prev.v)
           /\ dbCache.defined
           /\ userKey \in DOMAIN dbCache.val
           /\ dbCache.val[userKey] = prev.v
           /\ prev.purged => proc[p].log = <<"getItem">>

\* put, purgeCache, get: the value came from the storage
C10_Witness ==
  \E p \in Procs :
    /\ Done(p, "get")
    /\ prev.op = "put" /\ prev.result = Void /\ prev.purged
    /\ prev.k = proc[p].k /\ prev.k # ""
    /\ proc[p].result = Value(prev.v)
    /\ proc[p].log = <<"getItem">>

\* currUser + ':' + k for the current user
UserKey(k) == dbMetaCache.val.currUser \o ":" \o k

\* C11: when del(k) has completed, the cache and the storage hold nothing
\* under currUser + ':' + k, and a get(k) that follows it returns undefined
\* and adds no cache entry.
C11_GetAfterDel ==
  \A p \in Procs :
    /\ Done(p, "del") /\ proc[p].result = Void
       => /\ dbCache.defined
          /\ UserKey(proc[p].k) \notin DOMAIN dbCache.val
          /\ UserKey(proc[p].k) \notin DOMAIN store
    /\ Done(p, "get") /\ prev.op = "del" /\ prev.result = Void
       /\ prev.k = proc[p].k
       => /\ proc[p].result = UndefinedResult
          /\ UserKey(proc[p].k) \notin DOMAIN dbCache.val
          /\ UserKey(proc[p].k) \notin DOMAIN store

\* del, get: the get found nothing in the cache, read the storage and
\* returned undefined
C11_Witness ==
  \E p \in Procs :
    /\ Done(p, "get")
    /\ prev.op = "del" /\ prev.result = Void /\ prev.k = proc[p].k
    /\ proc[p].log = <<"getItem">>
    /\ proc[p].result = UndefinedResult

\* C12: the step of update(k, partial) that writes the cache leaves under
\* currUser + ':' + k the previously cached object (the empty object when
\* there was none) with the fields of partial set to their new values and
\* every other field unchanged; a get(k) that follows the update without a
\* purge returns that cached object, with the fields of partial.
C12_UpdateMerges ==
  /\ [][\A p \in Procs :
          proc'[p].op = "update" /\ proc'[p].pc = "update_await"
          /\ proc[p].pc # "update_await"
          => LET userKey == dbMetaCache'.val.currUser \o ":" \o proc'[p].k
                 partial == proc'[p].v
                 old == IF dbCache.defined /\ userKey \in DOMAIN dbCache.val
                        THEN dbCache.val[userKey]
                        ELSE <<>>
                 new == dbCache'.val[userKey]
             IN  /\ DOMAIN new = DOMAIN old \cup DOMAIN partial
                 /\ \A field \in DOMAIN new :
                      new[field] = IF field \in DOMAIN partial
                                   THEN partial[field]
                                   ELSE old[field]]_vars
  /\ [](\A p \in Procs :
          /\ Done(p, "get")
          /\ prev.op = "update" /\ prev.result = Void /\ ~prev.purged
          /\ prev.k = proc[p].k
          => /\ proc[p].result = Value(dbCache.val[UserKey(proc[p].k)])
             /\ \A field \in DOMAIN prev.v :
                  proc[p].result.val[field] = prev.v[field])

\* put(k, {a: 2}), update(k, {b: 2}), get(k): the merged object
C12_Witness ==
  \E p \in Procs :
    /\ Done(p, "get")
    /\ prev.op = "update" /\ prev.v = [b |-> 2] /\ ~prev.purged
    /\ prev.k = proc[p].k
    /\ proc[p].result = Value([a |-> 2, b |-> 2])

\* the identifier the storage holds under the install-id key
PersistedInstallId ==
  IF installIdKey \in DOMAIN store THEN Defined(store[installIdKey]) ELSE Undefined

\* C13: one identifier is generated for a storage and every getInstallId call
\* that has completed, whether it overlapped another one or not and on
\* whichever instance, returned the identifier the storage holds.
C13_OneInstallId ==
  /\ uuids <= 1
  /\ \A p \in Procs :
       Done(p, "getInstallId") => proc[p].result = Value(PersistedInstallId.val)
  /\ prev.op = "getInstallId" => prev.result = Value(PersistedInstallId.val)

\* C14: a cacheGet(k) made while the cache holds an entry under
\* currUser + ':' + k returns that entry, the value get(k) returns from the
\* cache, whatever currUser is; made while the cache is uninitialized it
\* returns null.
C14_CacheGetAgreesWithGet ==
  \A p \in Procs :
    Done(p, "cacheGet") /\ proc[p].k # ""
    => /\ dbCache.defined /\ dbMetaCache.defined
          /\ UserKey(proc[p].k) \in DOMAIN dbCache.val
          => proc[p].result = Value(dbCache.val[UserKey(proc[p].k)])
       /\ ~dbCache.defined => proc[p].result = NullResult

\* C15: a migrate call on an initialized store with a valid table in which a
\* migration function returned false and none threw has invoked every
\* function of every version above the stored lastMigrationVersion, in order,
\* has returned true, and the persisted lastMigrationVersion is the largest
\* of those versions.
C15_FalseDoesNotHalt ==
  \A p \in Procs :
    /\ Done(p, "migrate")
    /\ ValidTable(proc[p].table)
    /\ proc[p].startVersion >= 0
    /\ proc[p].failures = {"false"}
    => LET new == {v \in Versions(proc[p].table) : v > proc[p].startVersion}
       IN  /\ proc[p].result = Value(TRUE)
           /\ proc[p].log = InOrder(proc[p].table, new)
           /\ PersistedVersion = Largest(new)

\* table {1: [migration1, migration2], 2: [migration3]} from version 0, one
\* of the functions returning false
C15_Witness ==
  \E p \in Procs :
    /\ Done(p, "migrate")
    /\ proc[p].table = migTable2
    /\ proc[p].startVersion = 0
    /\ proc[p].failures = {"false"}
    /\ proc[p].result = Value(TRUE)
    /\ proc[p].log = <<"migration1", "migration2", "migration3">>
    /\ PersistedVersion = 2

\* C16: a migrate call never rejects; when one of its migration functions
\* threw or one of its storage operations failed it has returned false, and
\* when that happened before its metadata write the persisted
\* lastMigrationVersion is the one the call found.
C16_MigrateNeverThrows ==
  \A p \in Procs :
    Done(p, "migrate")
    => /\ proc[p].result.kind = "value"
       /\ proc[p].failures \cap {"throw", "read", "decode", "write"} # {}
          => proc[p].result = Value(FALSE)
       /\ proc[p].failures \cap {"throw", "read", "decode"} # {}
          => PersistedVersion = proc[p].startVersion

\* the second function of version 1 threw: false, and the version is still 0
C16_Witness ==
  \E p \in Procs :
    /\ Done(p, "migrate")
    /\ proc[p].table = migTable1
    /\ proc[p].startVersion = 0
    /\ proc[p].failures = {"throw"}
    /\ proc[p].log = <<"migration1", "migration2">>
    /\ proc[p].result = Value(FALSE)
    /\ PersistedVersion = 0

\* the read of the metadata record failed
C16_ReadFailed ==
  \E p \in Procs :
    Done(p, "migrate") /\ proc[p].failures = {"read"}
    /\ proc[p].result = Value(FALSE)

\* the write of the metadata record failed
C16_WriteFailed ==
  \E p \in Procs :
    Done(p, "migrate") /\ proc[p].failures = {"write"}
    /\ proc[p].result = Value(FALSE)

\* C18: a get(k) with a non-empty key during which a storage read failed or
\* a stored text could not be decoded, in get itself or while it initialized
\* and resolved the namespaced key, has returned undefined and has added no
\* cache entry for k.
C18_GetSwallowsReadFailures ==
  \A p \in Procs :
    /\ Done(p, "get") /\ proc[p].k # ""
    /\ proc[p].failures \cap {"read", "decode"} # {}
    => /\ proc[p].result = UndefinedResult
       /\ dbCache.defined /\ dbMetaCache.defined
          => UserKey(proc[p].k) \notin DOMAIN dbCache.val

\* the C18 property for the read of the user key alone
C18_OwnReadSwallowed ==
  \A p \in Procs :
    /\ Done(p, "get") /\ proc[p].k # ""
    /\ proc[p].failures \cap {"read", "decode"} # {}
    /\ proc[p].log = <<"getItem">>
    => /\ proc[p].result = UndefinedResult
       /\ UserKey(proc[p].k) \notin DOMAIN dbCache.val

C19_PutMetaKeepsOtherFields ==
  \A p \in Procs :
    /\ Done(p, "callPutMeta")
    /\ proc[p].startVersion >= 0
    /\ "lastMigrationVersion" \notin DOMAIN proc[p].m
    => PersistedVersion = proc[p].startVersion

\* C20: when a get(k) and a del(k) have both completed, the one overlapping
\* the other or not, the cache holds an entry under currUser + ':' + k only
\* if the storage holds one.
C20_DelLeavesNoStaleEntry ==
  \A p \in Procs :
    /\ proc[p].k # ""
    /\ \/ Done(p, "get") /\ \E q \in Procs : Done(q, "del") /\ proc[q].k = proc[p].k
       \/ Done(p, "get") /\ prev.op = "del" /\ prev.k = proc[p].k
       \/ Done(p, "del") /\ prev.op = "get" /\ prev.k = proc[p].k
    /\ proc[p].result # Thrown
    => (Cached(proc[p].k).defined => UserKey(proc[p].k) \in DOMAIN store)

====
